---- MODULE Spec2Model ----
(***************************************************************************)
(* Model of the Genres query facade (app/lib/collections/genres.js), the   *)
(* periodic populatedGenres refresh, and the imageUploader directive.      *)
(*                                                                         *)
(* Objects are functions from key names to values; the empty object {} is  *)
(* the function with the empty domain.  null and undefined object          *)
(* arguments are the value Null; an undefined scalar (a user id, an author *)
(* id) is the value Undefined.  A $in list is kept as the set of its       *)
(* elements (it is only used for membership).  The order in which the      *)
(* catalog returns matching documents is not modelled: find yields the set *)
(* of matching ids and findOne yields any one of them.                     *)
(*                                                                         *)
(* Three specifications share the operators:                               *)
(*   Spec        one caller on the server, over every catalog of two apps  *)
(*               and every category registry;                              *)
(*   SpecUser    one caller on the server or a client, over users,         *)
(*               installed versions and latest versions;                   *)
(*   SpecServer  the refresh timer of the server, interleaved with catalog *)
(*               and registry writes and readers of App.populatedGenres.   *)
(*               A callback yields at each collection read, so every read  *)
(*               (the fetch of getAll, then Categories.findOne,            *)
(*               Meteor.users.findOne and Apps.findOne of each findOneIn)  *)
(*               is a step of its own and writes run between them.         *)
(*               Meteor.setInterval starts a callback whether or           *)
(*               not earlier ones have returned, so any number of          *)
(*               callbacks are in flight at once: ticks is the bag of      *)
(*               their positions and locals.                               *)
(* A selector that names an undefined author matches no document, since    *)
(* every application has an author.                                        *)
(***************************************************************************)
EXTENDS Integers, Sequences, FiniteSets, Bags, TLC

\* ---------------------------------------------------------------- bounds
MaxTime == 2
MaxWrites == 1
MaxTicks == 2

UserIds == {"u1", "u2"}
AppIds == {"a1", "a2"}
CatNames == {"Games", "Popular"}
FileNames == {"photo.png", "a_b.gif"}

\* ---------------------------------------------------------------- values
Null == [isNull |-> TRUE]
Undefined == "undefined"
EmptyObj == [k \in {} |-> TRUE]

\* Apps.approval.approved and one other approval state
Approved == "approved"
Pending == "pending"

VARIABLES
  apps,            \* Apps collection: app id -> document
  cats,            \* Categories collection: sequence of category documents
  users,           \* Meteor.users: user id -> installedApps (app id -> dateTime)
  isClient,        \* Meteor.isClient / typeof window !== 'undefined'
  sessionUserId,   \* Meteor.userId() (client only)
  localInstalled,  \* amplify.store('sandstormInstalledApps') (client only)
  routeAuthorId,   \* FlowRouter.getParam('authorId') (client only)
  populatedGenres, \* App.populatedGenres
  ticks,           \* the refresh callbacks in flight: a bag of records, each
                   \* the position and locals of one callback
  hist,            \* history: the outcome of each ended tick, the number of
                   \* writes, the number of writes when the tick that stored
                   \* the current populatedGenres began, the number of ticks
                   \* that completed during the flight of the last failed one
  ret              \* the last call made on Genres / the uploader and its outcome

envVars == <<isClient, sessionUserId, localInstalled, routeAuthorId>>
dataVars == <<apps, cats, users>>
vars == <<apps, cats, users, isClient, sessionUserId, localInstalled,
          routeAuthorId, populatedGenres, ticks, hist, ret>>

\* ---------------------------------------------------------------- underscore helpers
\* a || b for object-valued arguments
OrElse(a, b) == IF a = Null THEN b ELSE a

\* what a buggy merge that lets the caller win would do
ExtendCallerWins(obj, src) ==
  IF src = Null THEN obj
  ELSE [k \in DOMAIN obj \cup DOMAIN src |->
          IF k \in DOMAIN obj THEN obj[k] ELSE src[k]]

\* _.extend(obj, src): keys of src overwrite keys of obj; a null src adds nothing
Extend(obj, src) ==
  IF src = Null THEN obj
  ELSE [k \in DOMAIN obj \cup DOMAIN src |->
          IF k \in DOMAIN src THEN src[k] ELSE obj[k]]

\* this.<key> of an invocation context (an absent context is the global object)
Prop(this, key) ==
  IF this = Null THEN Undefined
  ELSE IF key \in DOMAIN this THEN this[key] ELSE Undefined

\* ---------------------------------------------------------------- collections
\* one selector key against one document
MatchField(id, doc, k, v) ==
  CASE k = "_id"        -> id \in v.in
    [] k = "categories" -> v \in doc.categories
    [] k = "author"     -> doc.author = v
    [] k = "approved"   -> doc.approved = v
    [] OTHER            -> FALSE

\* ids of the documents a selector matches; a null selector matches nothing
AppsFind(selector) ==
  IF selector = Null THEN {}
  ELSE {id \in DOMAIN apps :
          \A k \in DOMAIN selector : MatchField(id, apps[id], k, selector[k])}

\* Apps.findOne(appId)
AppsFindOneById(appId) ==
  IF appId \in DOMAIN apps THEN apps[appId] ELSE Null

\* Categories.findOne({name: name})
CategoriesFindOne(name) ==
  IF \E i \in 1..Len(cats) : cats[i].name = name
  THEN cats[CHOOSE i \in 1..Len(cats) :
              /\ cats[i].name = name
              /\ \A j \in 1..(i-1) : cats[j].name # name]
  ELSE Null

\* Meteor.users.findOne(userId)
UsersFindOne(userId) ==
  IF userId \in DOMAIN users
  THEN [_id |-> userId, installedApps |-> users[userId]]
  ELSE Null

\* ---------------------------------------------------------------- getUser
getUser(this, userId) ==
  LET fromThis == IF userId # Undefined THEN userId ELSE Prop(this, "userId")
      resolved == IF isClient /\ fromThis = Undefined THEN sessionUserId
                  ELSE fromThis
  IN UsersFindOne(resolved)

\* ---------------------------------------------------------------- extraGenres
extraGenres == <<
  [name |-> "All", selector |-> EmptyObj, options |-> EmptyObj,
   priority |-> 1, showSummary |-> FALSE],
  [name |-> "Popular", selector |-> EmptyObj,
   options |-> [sort |-> [installCount |-> -1]],
   priority |-> 0, showSummary |-> TRUE],
  [name |-> "New", selector |-> EmptyObj,
   options |-> [sort |-> [createdAt |-> -1]],
   priority |-> 1, showSummary |-> FALSE],
  [name |-> "New & Updated", selector |-> EmptyObj,
   options |-> [sort |-> [lastUpdated |-> -1]],
   priority |-> 0, showSummary |-> TRUE],
  [name |-> "This Week", selector |-> EmptyObj,
   options |-> [sort |-> [installCountThisWeek |-> -1]],
   priority |-> 0, showSummary |-> FALSE],
  [name |-> "Installed", selector |-> [fn |-> "Installed"],
   options |-> EmptyObj, priority |-> 2, showSummary |-> FALSE],
  [name |-> "Updates Available", selector |-> [fn |-> "Updates Available"],
   priority |-> 0, showSummary |-> FALSE],
  [name |-> "No Updates", selector |-> [fn |-> "No Updates"],
   priority |-> 0, showSummary |-> FALSE],
  [name |-> "Apps By Me", selector |-> [fn |-> "Apps By Me"],
   priority |-> 0, showSummary |-> FALSE],
  [name |-> "Apps By Author", selector |-> [fn |-> "Apps By Author"],
   priority |-> 0, showSummary |-> FALSE] >>

ExtraNames == {extraGenres[i].name : i \in 1..Len(extraGenres)}

\* a lookup that falls back to the first extra genre for a name it does not know
FindExtraGenreOrFirst(name) ==
  IF name \in ExtraNames
  THEN extraGenres[CHOOSE i \in 1..Len(extraGenres) : extraGenres[i].name = name]
  ELSE extraGenres[1]

\* _.findWhere(extraGenres, {name: name})
FindExtraGenre(name) ==
  IF name \in ExtraNames
  THEN extraGenres[CHOOSE i \in 1..Len(extraGenres) : extraGenres[i].name = name]
  ELSE Null

\* extraGenres['Installed'].selector, once getUser has returned user
InstalledSelectorOf(user) ==
  LET fromStore == IF isClient THEN localInstalled ELSE {}
      fromUser == IF user # Null THEN DOMAIN user.installedApps ELSE {}
  IN [_id |-> [in |-> fromStore \cup fromUser]]

\* extraGenres['Installed'].selector
InstalledSelector(this) == InstalledSelectorOf(getUser(this, Undefined))

\* the comparison a slip would turn the update test into
IsOlderOrEqual(installed, latest) == installed <= latest

\* appDetails.version.dateTime < current.latestVersion().dateTime
IsOlder(installed, latest) == installed < latest

\* extraGenres['Updates Available'].selector, once getUser has returned user
UpdatesAvailableSelectorOf(user) ==
  IF user = Null THEN Null
  ELSE [_id |-> [in |->
          {appId \in DOMAIN user.installedApps :
             /\ AppsFindOneById(appId) # Null
             /\ IsOlder(user.installedApps[appId], apps[appId].latest)}]]

\* extraGenres['Updates Available'].selector
UpdatesAvailableSelector(this) ==
  UpdatesAvailableSelectorOf(getUser(this, Undefined))

\* extraGenres['No Updates'].selector, once getUser has returned user
NoUpdatesSelectorOf(user) ==
  IF user = Null THEN Null
  ELSE [_id |-> [in |->
          {appId \in DOMAIN user.installedApps :
             /\ AppsFindOneById(appId) # Null
             /\ user.installedApps[appId] >= apps[appId].latest}]]

\* extraGenres['No Updates'].selector
NoUpdatesSelector(this) == NoUpdatesSelectorOf(getUser(this, Undefined))

\* extraGenres['Apps By Me'].selector, once getUser has returned user
AppsByMeSelectorOf(user) ==
  IF user = Null THEN Null ELSE [author |-> user._id]

\* extraGenres['Apps By Me'].selector
AppsByMeSelector(this) == AppsByMeSelectorOf(getUser(this, Undefined))

\* extraGenres['Apps By Author'].selector
AppsByAuthorSelector(this) ==
  [author |-> IF Prop(this, "authorId") # Undefined
              THEN Prop(this, "authorId")
              ELSE routeAuthorId]

\* eGenSelector.apply(context) for a function-valued selector
ApplySelector(fn, this) ==
  CASE fn = "Installed"         -> InstalledSelector(this)
    [] fn = "Updates Available" -> UpdatesAvailableSelector(this)
    [] fn = "No Updates"        -> NoUpdatesSelector(this)
    [] fn = "Apps By Me"        -> AppsByMeSelector(this)
    [] fn = "Apps By Author"    -> AppsByAuthorSelector(this)

\* _.isFunction(x)
IsFunction(x) == x # Null /\ "fn" \in DOMAIN x

\* ---------------------------------------------------------------- invokeGenreFunctions
invokeGenreFunctions(extraGenre, origSelector, origOptions, context) ==
  LET eGenSelector0 == extraGenre.selector
      eGenOptions0 == IF "options" \in DOMAIN extraGenre
                      THEN extraGenre.options ELSE Null
      eGenSelector == IF IsFunction(eGenSelector0)
                      THEN ApplySelector(eGenSelector0.fn, context)
                      ELSE eGenSelector0
      eGenOptions == eGenOptions0
  IN [selector |-> Extend(Extend(EmptyObj, origSelector), eGenSelector),
      options  |-> Extend(Extend(EmptyObj, origOptions), eGenOptions)]

\* ---------------------------------------------------------------- Genres
\* Genres.findIn: the query handed to Apps.find, its result, and the caller's
\* selector object as the call leaves it
findIn(name, selector, options, context) ==
  LET thisSelector == OrElse(selector, EmptyObj)
      theseOptions == OrElse(options, EmptyObj)
      category == CategoriesFindOne(name)
      extraGenre == FindExtraGenre(name)
  IN IF category # Null
     THEN LET extended == Extend(thisSelector, [categories |-> category.name])
          IN [branch |-> "category", queried |-> TRUE,
              qSelector |-> extended, qOptions |-> options,
              result |-> AppsFind(extended),
              selectorAfter |-> IF selector = Null THEN Null ELSE extended]
     ELSE IF extraGenre # Null
     THEN LET params == invokeGenreFunctions(extraGenre, thisSelector,
                                             theseOptions, context)
          IN [branch |-> "extra", queried |-> TRUE,
              qSelector |-> params.selector, qOptions |-> params.options,
              result |-> AppsFind(params.selector),
              selectorAfter |-> selector]
     ELSE [branch |-> "unknown", queried |-> TRUE,
           qSelector |-> Null, qOptions |-> Null,
           result |-> AppsFind(Null),
           selectorAfter |-> selector]

\* Genres.findOneIn: as findIn, with the documents Apps.findOne may return
findOneIn(name, selector, options, context) ==
  LET thisSelector == OrElse(selector, EmptyObj)
      theseOptions == OrElse(options, EmptyObj)
      category == CategoriesFindOne(name)
      extraGenre == FindExtraGenre(name)
  IN IF category # Null
     THEN LET extended == Extend(thisSelector, [categories |-> category.name])
          IN [branch |-> "category", queried |-> TRUE,
              qSelector |-> extended, qOptions |-> theseOptions,
              candidates |-> AppsFind(extended),
              selectorAfter |-> IF selector = Null THEN Null ELSE extended]
     ELSE IF extraGenre # Null
     THEN LET params == invokeGenreFunctions(extraGenre, thisSelector,
                                             theseOptions, context)
          IN [branch |-> "extra", queried |-> TRUE,
              qSelector |-> params.selector, qOptions |-> params.options,
              candidates |-> AppsFind(params.selector),
              selectorAfter |-> selector]
     ELSE [branch |-> "unknown", queried |-> FALSE,
           qSelector |-> Null, qOptions |-> Null,
           candidates |-> {},
           selectorAfter |-> selector]

\* _.where(list, props)
Where(list, props) ==
  LET Test(g) == \A k \in DOMAIN props : k \in DOMAIN g /\ g[k] = props[k]
  IN SelectSeq(list, Test)

\* a caller's predicate for options.filter
FilterPredicate(tag, g) ==
  CASE tag = "priorityZero" -> "priority" \in DOMAIN g /\ g.priority = 0
    [] tag = "notAll"       -> g.name # "All"

\* _.filter(list, predicate)
Filter(list, tag) ==
  LET Test(g) == FilterPredicate(tag, g)
  IN SelectSeq(list, Test)

\* a caller's options.iteratee applied to a genre: {} is undefined, {n} is n
IterateeKey(tag, g) ==
  CASE tag = "priority"        -> IF "priority" \in DOMAIN g THEN {g.priority} ELSE {}
    [] tag = "categoriesFirst" -> IF "priority" \in DOMAIN g THEN {1} ELSE {0}

\* the comparator of _.sortBy: a does not sort after b (undefined sorts last)
KeyNotAfter(a, b) ==
  IF a = {} THEN b = {}
  ELSE IF b = {} THEN TRUE
  ELSE (CHOOSE x \in a : TRUE) <= (CHOOSE y \in b : TRUE)

RECURSIVE SortBy(_, _)
\* _.sortBy(list, iteratee): stable
SortBy(list, tag) ==
  IF Len(list) = 0 THEN list
  ELSE LET front == SortBy(SubSeq(list, 1, Len(list) - 1), tag)
           g == list[Len(list)]
           n == Cardinality({i \in 1..Len(front) :
                  KeyNotAfter(IterateeKey(tag, front[i]), IterateeKey(tag, g))})
       IN SubSeq(front, 1, n) \o <<g>> \o SubSeq(front, n + 1, Len(front))

\* Genres.getAll
getAll(options) ==
  LET o == OrElse(options, EmptyObj)
      genres0 == extraGenres \o cats
      genres1 == IF "where" \in DOMAIN o THEN Where(genres0, o.where) ELSE genres0
      genres2 == IF "filter" \in DOMAIN o THEN Filter(genres1, o.filter) ELSE genres1
  IN IF "iteratee" \in DOMAIN o THEN SortBy(genres2, o.iteratee) ELSE genres2

\* a lookup that prefers the extra genre
getOneExtraFirst(name) ==
  LET extraGenre == FindExtraGenre(name)
  IN IF extraGenre # Null THEN extraGenre ELSE CategoriesFindOne(name)

\* Genres.getOne
getOne(name) ==
  LET category == CategoriesFindOne(name)
  IN IF category # Null THEN category ELSE FindExtraGenre(name)

\* one call of the predicate getPopulated hands to _.filter
PopulatedTest(genre, selector, options, context) ==
  LET r == findOneIn(genre.name, selector, options, context)
  IN [found |-> r.candidates # {}, selectorAfter |-> r.selectorAfter]

RECURSIVE PopulatedFrom(_, _, _, _, _)
\* _.filter over genres[i..], threading the caller's selector object
PopulatedFrom(genres, i, selector, options, context) ==
  IF i > Len(genres) THEN [result |-> <<>>, selectorAfter |-> selector]
  ELSE LET t == PopulatedTest(genres[i], selector, options, context)
           rest == PopulatedFrom(genres, i + 1, t.selectorAfter, options, context)
       IN [result |-> (IF t.found THEN <<genres[i]>> ELSE <<>>) \o rest.result,
           selectorAfter |-> rest.selectorAfter]

\* Genres.getPopulated
getPopulated(selector, options, context) ==
  PopulatedFrom(getAll(options), 1, selector, options, context)

\* ---------------------------------------------------------------- imageUploader
\* an authorize that lets every request through
authorizeAnyone(userId) == [ok |-> TRUE, error |-> "", message |-> ""]

\* imageUploader.authorize with this.userId = userId (undefined and "" are falsy)
authorize(userId) ==
  IF userId = Undefined \/ userId = ""
  THEN [ok |-> FALSE, error |-> "Login Required",
        message |-> "Please login before posting files"]
  ELSE [ok |-> TRUE, error |-> "", message |-> ""]

\* imageUploader.key with this.userId = userId and new Date().valueOf() = now
key(userId, now, fileName) ==
  "images/" \o userId \o "_" \o ToString(now) \o "_" \o fileName

\* ---------------------------------------------------------------- inputs
Times == 1..MaxTime

AppDocs == [author : UserIds, categories : SUBSET CatNames,
            approved : {Approved, Pending}, latest : Times]

\* catalogs over a set of documents
CatalogsOf(docs) == UNION {[D -> docs] : D \in SUBSET AppIds}

\* category registries: sequences of distinct names
Registries ==
  {<<>>} \cup {<<[name |-> c]>> : c \in CatNames}
         \cup UNION {{<<[name |-> c], [name |-> d]>> : d \in CatNames \ {c}} :
                       c \in CatNames}

\* installedApps maps
InstallMaps == UNION {[D -> Times] : D \in SUBSET AppIds}

Names == ExtraNames \cup CatNames \cup {"Nope"}

Selectors == {Null,
              [approved |-> Approved],
              [categories |-> "Games", approved |-> Approved],
              [author |-> "u2"]}

FindOptions == {Null, [sort |-> [foo |-> 1], reactive |-> FALSE]}

GenreOptions == {Null,
                 [iteratee |-> "categoriesFirst"],
                 [iteratee |-> "priority", sort |-> [foo |-> 1]],
                 [where |-> [showSummary |-> FALSE]],
                 [filter |-> "priorityZero"]}

Contexts == {Null, [userId |-> "u1"], [userId |-> "u2", authorId |-> "u1"]}

UploadTimes == {1000, 1001}

NoCall == [op |-> "none"]
NoHist == [log |-> <<>>, writes |-> 0, lastBegan |-> 0, failedOver |-> 0]
Unset == [defined |-> FALSE, value |-> <<>>]

\* ---------------------------------------------------------------- calls
\* a caller invokes Genres.findIn
FindIn(name, selector, options, context) ==
  /\ ret = NoCall
  /\ LET r == findIn(name, selector, options, context)
     IN ret' = [op |-> "findIn", name |-> name, selector |-> selector,
                options |-> options, context |-> context,
                branch |-> r.branch, queried |-> r.queried,
                qSelector |-> r.qSelector, qOptions |-> r.qOptions,
                result |-> r.result, selectorAfter |-> r.selectorAfter]
  /\ UNCHANGED <<dataVars, envVars, populatedGenres, ticks, hist>>

\* a caller invokes Genres.findOneIn
FindOneIn(name, selector, options, context) ==
  /\ ret = NoCall
  /\ LET r == findOneIn(name, selector, options, context)
     IN \E doc \in (IF r.candidates = {} THEN {Undefined} ELSE r.candidates) :
          ret' = [op |-> "findOneIn", name |-> name, selector |-> selector,
                  options |-> options, context |-> context,
                  branch |-> r.branch, queried |-> r.queried,
                  qSelector |-> r.qSelector, qOptions |-> r.qOptions,
                  result |-> doc, selectorAfter |-> r.selectorAfter]
  /\ UNCHANGED <<dataVars, envVars, populatedGenres, ticks, hist>>

\* a caller invokes Genres.getAll
GetAll(options) ==
  /\ ret = NoCall
  /\ ret' = [op |-> "getAll", options |-> options, result |-> getAll(options)]
  /\ UNCHANGED <<dataVars, envVars, populatedGenres, ticks, hist>>

\* a caller invokes Genres.getOne
GetOne(name) ==
  /\ ret = NoCall
  /\ ret' = [op |-> "getOne", name |-> name, result |-> getOne(name)]
  /\ UNCHANGED <<dataVars, envVars, populatedGenres, ticks, hist>>

\* a caller invokes Genres.getPopulated
GetPopulated(selector, options, context) ==
  /\ ret = NoCall
  /\ LET r == getPopulated(selector, options, context)
     IN ret' = [op |-> "getPopulated", selector |-> selector,
                options |-> options, context |-> context,
                result |-> r.result, selectorAfter |-> r.selectorAfter]
  /\ UNCHANGED <<dataVars, envVars, populatedGenres, ticks, hist>>

\* an upload request reaches the imageUploader directive: authorize, then key
Upload(userId, now, fileName) ==
  /\ ret = NoCall
  /\ LET a == authorize(userId)
     IN ret' = [op |-> "upload", userId |-> userId, now |-> now,
                fileName |-> fileName, authorized |-> a.ok,
                error |-> a.error, message |-> a.message,
                key |-> IF a.ok THEN key(userId, now, fileName) ELSE ""]
  /\ UNCHANGED <<dataVars, envVars, populatedGenres, ticks, hist>>

\* ---------------------------------------------------------------- processes
ServerEnv ==
  [isClient |-> FALSE, session |-> Undefined, local |-> {}, route |-> Undefined]

ProcessEnvs ==
  {ServerEnv,
   [isClient |-> TRUE, session |-> Undefined, local |-> {}, route |-> Undefined],
   [isClient |-> TRUE, session |-> "u1", local |-> {"a2"}, route |-> "u2"]}

InitEnv(e) ==
  /\ isClient = e.isClient
  /\ sessionUserId = e.session
  /\ localInstalled = e.local
  /\ routeAuthorId = e.route

InitRest ==
  /\ populatedGenres = Unset
  /\ ticks = EmptyBag
  /\ hist = NoHist
  /\ ret = NoCall

Calls ==
  \/ \E name \in Names, selector \in Selectors, options \in FindOptions,
        context \in Contexts : FindIn(name, selector, options, context)
  \/ \E name \in Names, selector \in Selectors, options \in FindOptions,
        context \in Contexts : FindOneIn(name, selector, options, context)
  \/ \E options \in GenreOptions : GetAll(options)
  \/ \E name \in Names : GetOne(name)
  \/ \E selector \in Selectors, options \in GenreOptions, context \in Contexts :
        GetPopulated(selector, options, context)
  \/ \E userId \in UserIds \cup {Undefined, ""}, now \in UploadTimes,
        fileName \in FileNames : Upload(userId, now, fileName)

\* ---------------------------------------------------------------- Spec: callers over catalogs and categories
CategoryDocs == {d \in AppDocs : d.author = "u1" /\ d.latest = 1}

Init ==
  /\ apps \in CatalogsOf(CategoryDocs)
  /\ cats \in Registries
  /\ users = [u \in {"u1"} |-> EmptyObj]
  /\ InitEnv(ServerEnv)
  /\ InitRest

Next == Calls

Spec == Init /\ [][Next]_vars

\* ---------------------------------------------------------------- SpecUser: callers over users and versions
UserDocs == {d \in AppDocs : d.categories = {"Games"} /\ d.approved = Approved}

\* a1 is written by u1 and a2 by u2
UserCatalogs ==
  {c \in CatalogsOf(UserDocs) :
     \A id \in DOMAIN c : c[id].author = (IF id = "a1" THEN "u1" ELSE "u2")}

InitUser ==
  /\ apps \in UserCatalogs
  /\ cats = <<[name |-> "Games"]>>
  /\ users \in {[u \in {"u1"} |-> m] : m \in InstallMaps}
  /\ \E e \in ProcessEnvs : InitEnv(e)
  /\ InitRest

NextUser == Calls

SpecUser == InitUser /\ [][NextUser]_vars

\* ---------------------------------------------------------------- SpecServer: the refresh timer
\* the assignment to App.populatedGenres runs once getPopulated has returned
PublishesEveryStep(cb) == TRUE

Publishes(cb) == cb.i = Len(cb.genres)

\* the selector functions that begin with getUser.call(this, userId)
CallsGetUser(fn) ==
  fn \in {"Installed", "Updates Available", "No Updates", "Apps By Me"}

\* a function-valued selector, once its getUser has returned user
ApplySelectorOf(fn, user) ==
  CASE fn = "Installed"         -> InstalledSelectorOf(user)
    [] fn = "Updates Available" -> UpdatesAvailableSelectorOf(user)
    [] fn = "No Updates"        -> NoUpdatesSelectorOf(user)
    [] fn = "Apps By Me"        -> AppsByMeSelectorOf(user)

\* the number of ticks of a log that ran to completion
Completed(log) == Len(SelectSeq(log, LAMBDA o : o = "completed"))

\* the callback t of the bag goes on as u / ends
Resume(t, u) == (ticks (-) SetToBag({t})) (+) SetToBag({u})
End(t) == ticks (-) SetToBag({t})

\* the timer fires, whether or not earlier callbacks have returned: the
\* callback evaluates its argument and getPopulated calls getAll (with no
\* options), which blocks in Categories.find().fetch()
TickStart ==
  /\ Len(hist.log) + BagCardinality(ticks) < MaxTicks
  /\ ticks' = ticks (+) SetToBag({
                [pc |-> "fetch", genres |-> <<>>, i |-> 1,
                 selector |-> [approved |-> Approved], query |-> Null,
                 acc |-> <<>>, writesAtStart |-> hist.writes,
                 cacheAtStart |-> populatedGenres,
                 completedAtStart |-> Completed(hist.log)]})
  /\ UNCHANGED <<dataVars, envVars, populatedGenres, hist, ret>>

\* Categories.find().fetch() of getAll returns: the genre list is built and
\* _.filter calls findOneIn for the first genre, which blocks in
\* Categories.findOne
TickFetch(t) ==
  /\ t.pc = "fetch"
  /\ ticks' = Resume(t, [t EXCEPT !.pc = "findCategory",
                                  !.genres = getAll(Null)])
  /\ UNCHANGED <<dataVars, envVars, populatedGenres, hist, ret>>

\* findOneIn returns to the predicate of _.filter with found = !!document:
\* _.filter goes on to the next genre, or getPopulated returns and the
\* callback stores its result
TestReturns(t, selector, found) ==
  LET genre == t.genres[t.i]
      acc == IF found THEN Append(t.acc, genre) ELSE t.acc
      returns == t.i = Len(t.genres)
  IN /\ ticks' = IF returns THEN End(t)
                 ELSE Resume(t, [t EXCEPT !.pc = "findCategory", !.i = @ + 1,
                                          !.selector = selector,
                                          !.query = Null, !.acc = acc])
     /\ populatedGenres' = IF Publishes(t)
                           THEN [defined |-> TRUE, value |-> acc]
                           ELSE populatedGenres
     /\ hist' = IF returns
                THEN [hist EXCEPT !.log = Append(@, "completed"),
                                  !.lastBegan = t.writesAtStart]
                ELSE hist

\* Categories.findOne({name: name}) of findOneIn returns.  With a category
\* the caller's selector object is extended and Apps.findOne is called; with
\* an extra genre invokeGenreFunctions runs up to its next read (getUser's
\* Meteor.users.findOne, or else Apps.findOne); with neither, findOneIn
\* returns undefined.  The callback passes no options and no context.
TickFindCategory(t) ==
  /\ t.pc = "findCategory"
  /\ LET name == t.genres[t.i].name
         category == CategoriesFindOne(name)
         extraGenre == FindExtraGenre(name)
     IN IF category # Null
        THEN /\ LET extended == Extend(t.selector,
                                       [categories |-> category.name])
                IN ticks' = Resume(t, [t EXCEPT !.pc = "findApp",
                                                !.selector = extended,
                                                !.query = extended])
             /\ UNCHANGED <<populatedGenres, hist>>
        ELSE IF extraGenre # Null
        THEN IF IsFunction(extraGenre.selector)
                /\ CallsGetUser(extraGenre.selector.fn)
             THEN /\ ticks' = Resume(t, [t EXCEPT !.pc = "findUser"])
                  /\ UNCHANGED <<populatedGenres, hist>>
             ELSE /\ ticks' = Resume(t, [t EXCEPT
                               !.pc = "findApp",
                               !.query = invokeGenreFunctions(
                                  extraGenre, t.selector, EmptyObj,
                                  Null).selector])
                  /\ UNCHANGED <<populatedGenres, hist>>
        ELSE TestReturns(t, t.selector, FALSE)
  /\ UNCHANGED <<dataVars, envVars, ret>>

\* Meteor.users.findOne(userId) of getUser returns: the selector function
\* builds its selector, invokeGenreFunctions merges it over the caller's and
\* Apps.findOne is called.  The callback runs on the server with no context,
\* so getUser resolves no user and the per-application version lookups of
\* Updates Available and No Updates do not run.
TickFindUser(t) ==
  /\ t.pc = "findUser"
  /\ LET extraGenre == FindExtraGenre(t.genres[t.i].name)
         user == getUser(Null, Undefined)
         eGenSelector == ApplySelectorOf(extraGenre.selector.fn, user)
     IN ticks' = Resume(t, [t EXCEPT
                   !.pc = "findApp",
                   !.query = Extend(Extend(EmptyObj, t.selector),
                                    eGenSelector)])
  /\ UNCHANGED <<dataVars, envVars, populatedGenres, hist, ret>>

\* Apps.findOne(selector, options) of findOneIn returns its document
TickFindApp(t) ==
  /\ t.pc = "findApp"
  /\ TestReturns(t, t.selector, AppsFind(t.query) # {})
  /\ UNCHANGED <<dataVars, envVars, ret>>

\* a collection read of a callback in flight throws: that callback ends there
TickThrow(t) ==
  /\ ticks' = End(t)
  /\ hist' = [hist EXCEPT !.log = Append(@, "failed"),
                          !.failedOver = Completed(hist.log)
                                           - t.completedAtStart]
  /\ UNCHANGED <<dataVars, envVars, populatedGenres, ret>>

\* an application document is inserted or replaced
WriteApp(id, doc) ==
  /\ hist.writes < MaxWrites
  /\ id \in DOMAIN apps => apps[id] # doc
  /\ apps' = [a \in DOMAIN apps \cup {id} |-> IF a = id THEN doc ELSE apps[a]]
  /\ hist' = [hist EXCEPT !.writes = @ + 1]
  /\ UNCHANGED <<cats, users, envVars, populatedGenres, ticks, ret>>

\* an application document is removed
RemoveApp(id) ==
  /\ hist.writes < MaxWrites
  /\ id \in DOMAIN apps
  /\ apps' = [a \in DOMAIN apps \ {id} |-> apps[a]]
  /\ hist' = [hist EXCEPT !.writes = @ + 1]
  /\ UNCHANGED <<cats, users, envVars, populatedGenres, ticks, ret>>

\* an administrator registers a category
AddCategory(name) ==
  /\ hist.writes < MaxWrites
  /\ ~\E i \in 1..Len(cats) : cats[i].name = name
  /\ cats' = Append(cats, [name |-> name])
  /\ hist' = [hist EXCEPT !.writes = @ + 1]
  /\ UNCHANGED <<apps, users, envVars, populatedGenres, ticks, ret>>

\* an administrator edits a category: its name changes
EditCategory(i, name) ==
  /\ hist.writes < MaxWrites
  /\ i \in 1..Len(cats)
  /\ ~\E j \in 1..Len(cats) : cats[j].name = name
  /\ cats' = [cats EXCEPT ![i] = [name |-> name]]
  /\ hist' = [hist EXCEPT !.writes = @ + 1]
  /\ UNCHANGED <<apps, users, envVars, populatedGenres, ticks, ret>>

\* a reader takes the value of App.populatedGenres
ReadCache ==
  /\ ret = NoCall
  /\ ret' = [op |-> "read", value |-> populatedGenres]
  /\ UNCHANGED <<dataVars, envVars, populatedGenres, ticks, hist>>

\* the server's catalog holds at most the application a1, in Games
ServerAppIds == {"a1"}

ServerDocs == {d \in AppDocs : /\ d.author = "u1"
                               /\ d.latest = 1
                               /\ d.categories = {"Games"}}

ServerCatalogs ==
  {EmptyObj} \cup {[a \in ServerAppIds |-> d] :
                     d \in {x \in ServerDocs : x.approved = Approved}}

ServerRegistries == {<<>>, <<[name |-> "Games"]>>}

InitServer ==
  /\ apps \in ServerCatalogs
  /\ cats \in ServerRegistries
  /\ users = [u \in {"u1"} |-> [a \in {"a1"} |-> 1]]
  /\ InitEnv(ServerEnv)
  /\ InitRest

NextServer ==
  \/ TickStart
  \/ \E t \in BagToSet(ticks) : TickFetch(t)
  \/ \E t \in BagToSet(ticks) : TickFindCategory(t)
  \/ \E t \in BagToSet(ticks) : TickFindUser(t)
  \/ \E t \in BagToSet(ticks) : TickFindApp(t)
  \/ \E t \in BagToSet(ticks) : TickThrow(t)
  \/ \E id \in ServerAppIds, doc \in ServerDocs : WriteApp(id, doc)
  \/ \E id \in ServerAppIds : RemoveApp(id)
  \/ \E name \in {"Games"} : AddCategory(name)
  \/ \E i \in 1..Len(cats), name \in CatNames : EditCategory(i, name)
  \/ ReadCache

SpecServer == InitServer /\ [][NextServer]_vars

\* ================================================================ claims
Registered(name) == CategoriesFindOne(name) # Null

IsFind == ret.op \in {"findIn", "findOneIn"}

\* the selector a caller passed, as an object
CallerSelector == OrElse(ret.selector, EmptyObj)
CallerOptions == OrElse(ret.options, EmptyObj)

NoUserGenres == {"Updates Available", "No Updates", "Apps By Me"}

\* C1: when one of the genres Apps By Me, Updates Available, No Updates is
\* queried and no user is resolved, findIn returns the empty set, findOneIn
\* returns none, and the query is never the caller's selector alone.
C1_NoUserMeansNoResult ==
  (/\ IsFind
   /\ ret.branch = "extra"
   /\ ret.name \in NoUserGenres
   /\ getUser(ret.context, Undefined) = Null)
  => /\ ret.op = "findIn" => ret.result = {}
     /\ ret.op = "findOneIn" => ret.result = Undefined
     /\ ret.qSelector # CallerSelector

\* C2: findIn on a registered category returns exactly the documents that
\* match the caller's selector with its categories field replaced by the
\* category's name, and hands the caller's options to the query unchanged.
C2_CategoryForcesCategories ==
  (ret.op = "findIn" /\ Registered(ret.name))
  => /\ ret.result =
          {id \in DOMAIN apps :
             /\ ret.name \in apps[id].categories
             /\ \A k \in DOMAIN CallerSelector \ {"categories"} :
                   MatchField(id, apps[id], k, CallerSelector[k])}
     /\ ret.qOptions = ret.options

C2_Witness ==
  /\ ret.op = "findIn"
  /\ ret.name = "Popular"
  /\ Registered("Popular")
  /\ ret.selector = [categories |-> "Games", approved |-> Approved]
  /\ ret.options # Null
  /\ ret.result # {}
  /\ \E id \in DOMAIN apps : id \notin ret.result /\ "Games" \in apps[id].categories

\* C3: for a name that is neither a registered category nor an extra genre,
\* findIn queries with the null selector and returns the empty set, and
\* findOneIn returns none without querying.
C3_UnknownNameIsEmpty ==
  (IsFind /\ ~Registered(ret.name) /\ ret.name \notin ExtraNames)
  => /\ ret.op = "findIn" =>
          ret.result = {} /\ ret.qSelector = Null
     /\ ret.op = "findOneIn" =>
          ret.result = Undefined /\ ~ret.queried

C3_Witness ==
  /\ ret.op = "findIn"
  /\ ret.name = "Nope"
  /\ ret.selector = Null
  /\ ret.result = {}
  /\ DOMAIN apps = AppIds

\* the selector an extra genre resolves to under a context (Null: none)
ResolvedSelector(genre, context) ==
  IF IsFunction(genre.selector)
  THEN ApplySelector(genre.selector.fn, context)
  ELSE genre.selector

ResolvedOptions(genre) ==
  IF "options" \in DOMAIN genre THEN genre.options ELSE Null

KeysOf(obj) == IF obj = Null THEN {} ELSE DOMAIN obj

\* C4: for an extra genre the query's selector and options are the shallow
\* merge of the caller's objects with the genre's on top: a key the genre
\* defines has the genre's whole value, a key only the caller defines keeps
\* the caller's value; for Popular a caller's sort is replaced by
\* {installCount: -1}.
C4_ShallowMergeGenreWins ==
  (IsFind /\ ret.branch = "extra")
  => LET genre == FindExtraGenre(ret.name)
         gs == ResolvedSelector(genre, ret.context)
         go == ResolvedOptions(genre)
     IN /\ DOMAIN ret.qSelector = DOMAIN CallerSelector \cup KeysOf(gs)
        /\ \A k \in KeysOf(gs) : ret.qSelector[k] = gs[k]
        /\ \A k \in DOMAIN CallerSelector \ KeysOf(gs) :
              ret.qSelector[k] = CallerSelector[k]
        /\ DOMAIN ret.qOptions = DOMAIN CallerOptions \cup KeysOf(go)
        /\ \A k \in KeysOf(go) : ret.qOptions[k] = go[k]
        /\ \A k \in DOMAIN CallerOptions \ KeysOf(go) :
              ret.qOptions[k] = CallerOptions[k]
        /\ (ret.name = "Popular" /\ "sort" \in DOMAIN CallerOptions)
              => ret.qOptions.sort = [installCount |-> -1]

C4_Witness ==
  /\ ret.op = "findIn"
  /\ ret.branch = "extra"
  /\ ret.name = "Popular"
  /\ ret.selector = [author |-> "u2"]
  /\ ret.options = [sort |-> [foo |-> 1], reactive |-> FALSE]
  /\ ret.qOptions = [sort |-> [installCount |-> -1], reactive |-> FALSE]
  /\ ret.qSelector = [author |-> "u2"]

\* C5: for a resolved user, an installed app whose document exists is in the
\* id filter of exactly one of Updates Available (installed version strictly
\* older than the latest) and No Updates (equal or newer); an installed id
\* without a document, and an id that is not installed, is in neither.
C5_UpdatesPartitionInstalled ==
  (/\ IsFind
   /\ ret.branch = "extra"
   /\ ret.name \in {"Updates Available", "No Updates"}
   /\ getUser(ret.context, Undefined) # Null)
  => LET user == getUser(ret.context, Undefined)
         installed == user.installedApps
         called == ret.qSelector._id.in
         other == IF ret.name = "Updates Available"
                  THEN NoUpdatesSelector(ret.context)._id.in
                  ELSE UpdatesAvailableSelector(ret.context)._id.in
         ua == IF ret.name = "Updates Available" THEN called ELSE other
         nu == IF ret.name = "Updates Available" THEN other ELSE called
     IN \A id \in AppIds :
          IF id \in DOMAIN installed /\ id \in DOMAIN apps
          THEN /\ (id \in ua) <=> (installed[id] < apps[id].latest)
               /\ (id \in nu) <=> (installed[id] >= apps[id].latest)
               /\ (id \in ua) # (id \in nu)
          ELSE id \notin ua /\ id \notin nu

C5_Witness ==
  /\ ret.op = "findIn"
  /\ ret.name = "Updates Available"
  /\ ret.context = [userId |-> "u1"]
  /\ DOMAIN users["u1"] = AppIds
  /\ DOMAIN apps = AppIds
  /\ users["u1"]["a2"] = apps["a2"].latest
  /\ ret.qSelector._id.in = {"a1"}
  /\ NoUpdatesSelector(ret.context)._id.in = {"a2"}

\* C6: a genre is in the result of getPopulated(S, O, context) exactly when
\* it is in getAll(O) and findOneIn(name, S, O, context), with S as the
\* caller supplied it, returns a document, whatever the order of getAll(O).
C6_PopulatedIsPerGenre ==
  ret.op = "getPopulated"
  => LET Test(g) == findOneIn(g.name, ret.selector, ret.options,
                              ret.context).candidates # {}
     IN ret.result = SelectSeq(getAll(ret.options), Test)

\* C7: a category that shares its name with an extra genre wins: getOne
\* returns the category document, and findIn/findOneIn take the category
\* branch (categories = name, the caller's options) without the extra genre's
\* selector or options.
C7_CategoryTakesPrecedence ==
  (/\ ret.op \in {"getOne", "findIn", "findOneIn"}
   /\ Registered(ret.name)
   /\ ret.name \in ExtraNames)
  => /\ ret.op = "getOne" => ret.result = [name |-> ret.name]
     /\ IsFind =>
          /\ ret.branch = "category"
          /\ ret.qSelector =
               [k \in DOMAIN CallerSelector \cup {"categories"} |->
                  IF k = "categories" THEN ret.name ELSE CallerSelector[k]]
          /\ ret.op = "findIn" => ret.qOptions = ret.options
          /\ ret.op = "findOneIn" => ret.qOptions = CallerOptions

C7_Witness ==
  /\ ret.op = "findIn"
  /\ ret.name = "Popular"
  /\ ret.branch = "category"
  /\ ret.selector = [approved |-> Approved]
  /\ ret.options = [sort |-> [foo |-> 1], reactive |-> FALSE]
  /\ ret.qOptions.sort = [foo |-> 1]
  /\ ret.result # {}
  /\ ret.result # AppsFind([approved |-> Approved])

\* C9: an upload without a user id is rejected by authorize with the error
\* "Login Required" and no key is produced; an upload by a user is authorized
\* and its key is images/{userId}_{epochMillis}_{fileName}.
C9_UploadNeedsLogin ==
  ret.op = "upload"
  => IF ret.userId \in UserIds
     THEN /\ ret.authorized
          /\ ret.key = "images/" \o ret.userId \o "_" \o ToString(ret.now)
                         \o "_" \o ret.fileName
          /\ (ret.userId = "u1" /\ ret.now = 1000 /\ ret.fileName = "photo.png")
                => ret.key = "images/u1_1000_photo.png"
     ELSE /\ ~ret.authorized
          /\ ret.error = "Login Required"
          /\ ret.key = ""

C9_Witness ==
  /\ ret.op = "upload"
  /\ ret.userId = "u1"
  /\ ret.now = 1000
  /\ ret.fileName = "photo.png"
  /\ ret.key = "images/u1_1000_photo.png"

\* a step changes populatedGenres only when a callback in flight returns from
\* getPopulated (its last findOneIn has returned), and then to the whole
\* sequence that callback computed
StoresWholeOnly ==
  populatedGenres' # populatedGenres
    => \E t \in BagToSet(ticks) :
          /\ ticks' = End(t)
          /\ t.pc \in {"findCategory", "findApp"}
          /\ t.i = Len(t.genres)
          /\ hist'.log = Append(hist.log, "completed")
          /\ populatedGenres'.defined
          /\ LET last == t.genres[t.i]
                 found == t.pc = "findApp" /\ AppsFind(t.query) # {}
             IN populatedGenres'.value =
                  t.acc \o (IF found THEN <<last>> ELSE <<>>)

\* C8 as stated: populatedGenres changes only in the step in which a refresh
\* tick returns from getPopulated, and then to the whole sequence that tick
\* computed; a tick that throws leaves populatedGenres equal to the value it
\* had before that tick began.
C8_ThrowRestoresStartValue ==
  [][/\ StoresWholeOnly
     /\ hist'.log = Append(hist.log, "failed")
          => \E t \in BagToSet(ticks) :
                /\ ticks' = End(t)
                /\ populatedGenres' = t.cacheAtStart]_vars

\* C8 amended: populatedGenres changes only in the step in which a refresh
\* tick returns from getPopulated, and then to the whole sequence that tick
\* computed; a tick that throws does not change populatedGenres and ends
\* alone (the other callbacks in flight go on), and the value then differs
\* from the one the tick began with only if another tick ran to completion
\* while it was in flight.
C8_CacheReplacedWhole ==
  [][/\ StoresWholeOnly
     /\ hist'.log = Append(hist.log, "failed")
          => /\ populatedGenres' = populatedGenres
             /\ \E t \in BagToSet(ticks) :
                   /\ ticks' = End(t)
                   /\ populatedGenres # t.cacheAtStart
                        => Completed(hist.log) > t.completedAtStart]_vars

\* one tick stored a whole sequence while a second was in flight, a write
\* ran during the first, the second then threw, and a reader took the value
C8_Witness ==
  /\ hist.log = <<"completed", "failed">>
  /\ hist.failedOver = 1
  /\ populatedGenres.defined
  /\ Len(populatedGenres.value) > 0
  /\ hist.writes > hist.lastBegan
  /\ ret = [op |-> "read", value |-> populatedGenres]

\* a genre's own filter, evaluated with no user and no context, matches an
\* approved document of the catalog
OwnFilterMatches(genre) ==
  IF "priority" \in DOMAIN genre
  THEN LET own == ResolvedSelector(genre, Null)
       IN /\ own # Null
          /\ \E id \in DOMAIN apps :
                /\ apps[id].approved = Approved
                /\ \A k \in DOMAIN own : MatchField(id, apps[id], k, own[k])
  ELSE \E id \in DOMAIN apps :
          /\ apps[id].approved = Approved
          /\ genre.name \in apps[id].categories

\* C10: when no write has happened since the last completed tick began, every
\* genre that tick stored in populatedGenres has an approved document matching
\* the genre's own filter.
C10_CachedGenresArePopulated ==
  (populatedGenres.defined /\ hist.lastBegan = hist.writes)
  => \A i \in 1..Len(populatedGenres.value) :
        OwnFilterMatches(populatedGenres.value[i])

====
